---- MODULE Spec2Model ----
(***************************************************************************)
(* asio::experimental::diagnostic_executor: an executor adapter that calls *)
(* a diagnostic policy hook with a stored label and then forwards the      *)
(* submission to the wrapped (inner) executor.                             *)
(*                                                                         *)
(* The adapter (include/asio/experimental/diagnostic_executor.hpp) and the *)
(* recording policy of its unit test are modelled from the source.  The    *)
(* inner executor (io_context::executor_type) and the free functions       *)
(* asio::dispatch / post / defer / query / require / prefer are the        *)
(* environment the adapter forwards to.                                    *)
(***************************************************************************)
EXTENDS Naturals, Sequences, FiniteSets

\* ------------------------------------------------------------------ bounds
\* Number of submissions made through adapters in one behaviour: by one
\* thread, by two concurrent threads, and in between work-tracking calls.
MaxCalls == 2
MaxConcCalls == 2
MaxFrameCalls == 1
\* Number of submissions, resubmissions included, when handlers are rescheduled.
MaxReschedCalls == 3
\* Number of adapter objects alive (constructed ones plus require/prefer results).
MaxAdapters == 3
\* Cap of the outstanding-work counter of an execution context.
MaxWork == 2

\* ------------------------------------------------------------------ values
\* Two client threads.  t1 runs outside every run loop; t2 is inside the run
\* loop of execution context 1 (it is executing a handler of that context).
Threads == {"t1", "t2"}
NoThread == "none"
RunningIn(t) == IF t = "t2" THEN 1 ELSE 0

\* Execution contexts (io_context objects).
Contexts == {1, 2}

\* Labels are const char*: an address and the text stored there.  Two
\* different addresses may hold the same text.
Labels ==
  { [addr |-> 1, text |-> "alpha"],
    [addr |-> 2, text |-> "alpha"],
    [addr |-> 3, text |-> "beta"] }

\* The diagnostic policy is a type parameter of the adapter.
Policies == {"null_diagnostic_policy", "test_policy"}

\* The allocator handed to the allocator-aware overloads; NoAlloc when the
\* overload takes none.
NoAlloc == "none"
TestAllocator == "test_allocator"


\* Submission operations of the adapter.  The "_a" ones are the
\* allocator-aware overloads.
SubmitOps ==
  {"execute", "dispatch", "dispatch_a", "post", "post_a", "defer", "defer_a"}

\* ------------------------------------------------- inner executor (io_context)
\* An io_context executor value: the context it refers to and its run-time
\* property bits.
InnerExecutor(c, b, r) == [ctx |-> c, blocking |-> b, relationship |-> r]

\* io_context::get_executor()
get_executor(c) == InnerExecutor(c, "possibly", "fork")

\* operator== of the inner executor: same context, same run-time bits.
inner_eq(e1, e2) ==
  /\ e1.ctx = e2.ctx
  /\ e1.blocking = e2.blocking
  /\ e1.relationship = e2.relationship

\* Properties the inner executor accepts in require / prefer.
Properties ==
  {"blocking.possibly", "blocking.never",
   "relationship.fork", "relationship.continuation"}

\* asio::require(inner, p)
inner_require(e, p) ==
  CASE p = "blocking.possibly"         -> [e EXCEPT !.blocking = "possibly"]
    [] p = "blocking.never"            -> [e EXCEPT !.blocking = "never"]
    [] p = "relationship.fork"         -> [e EXCEPT !.relationship = "fork"]
    [] p = "relationship.continuation" -> [e EXCEPT !.relationship = "continuation"]

\* asio::prefer(inner, p): the io_context executor supports every property it
\* can be required to have.
inner_prefer(e, p) == inner_require(e, p)

\* Properties that can be queried.
QueryProps == {"context", "blocking", "relationship"}

\* asio::query(inner, p)
inner_query(e, p) ==
  CASE p = "context"      -> <<"context", e.ctx>>
    [] p = "blocking"     -> <<"blocking", e.blocking>>
    [] p = "relationship" -> <<"relationship", e.relationship>>

\* State of one execution context: the handlers queued, the handlers run so
\* far, and the outstanding-work count.
EmptyContext == [queue |-> <<>>, ran |-> <<>>, work |-> 0]

\* An operation handed to an inner executor: which operation, on which
\* executor value, with which work item and allocator.
\*   fn \in {"execute", "dispatch", "post", "defer"}: the member functions;
\*   the free functions asio::dispatch/post/defer(ex, f) carry free = TRUE.
Request(fn, free, ex, w, al) ==
  [fn |-> fn, free |-> free, ex |-> ex, w |-> w, alloc |-> al]

\* The executor value a request ends up submitting to.  The free functions
\* go through require/prefer and then execute.
EffectiveExecutor(rq) ==
  IF ~rq.free THEN rq.ex
  ELSE CASE rq.fn = "dispatch" -> rq.ex
         [] rq.fn = "post" ->
              inner_prefer(inner_require(rq.ex, "blocking.never"),
                           "relationship.fork")
         [] rq.fn = "defer" ->
              inner_prefer(inner_require(rq.ex, "blocking.never"),
                           "relationship.continuation")

\* Whether the request runs the work item at once, inside the call.
RunsInline(rq, inrun) ==
  LET e == EffectiveExecutor(rq) IN
  CASE rq.fn = "execute"  -> e.blocking = "possibly" /\ inrun = e.ctx
    [] rq.fn = "dispatch" ->
         IF rq.free THEN e.blocking = "possibly" /\ inrun = e.ctx
         ELSE inrun = e.ctx
    [] rq.fn = "post"     -> FALSE
    [] rq.fn = "defer"    -> FALSE

\* Whether the queued operation is flagged as a continuation.
IsContinuation(rq) ==
  LET e == EffectiveExecutor(rq) IN
  CASE rq.fn = "execute"  -> e.relationship = "continuation"
    [] rq.fn = "dispatch" -> rq.free /\ e.relationship = "continuation"
    [] rq.fn = "post"     -> rq.free /\ e.relationship = "continuation"
    [] rq.fn = "defer"    -> TRUE

\* What the execution context stores for a request.
Handler(rq) ==
  [w |-> rq.w, fn |-> rq.fn, alloc |-> rq.alloc, cont |-> IsContinuation(rq)]

\* Outcomes of a request: queueing allocates an operation, which can fail.
Outcomes(rq, inrun) ==
  IF RunsInline(rq, inrun) THEN {"ok"} ELSE {"ok", "bad_alloc"}

\* The contexts after the inner executor has served a request with a given
\* outcome.  A failed request leaves the context as it was.
inner_submit(cs, rq, inrun, res) ==
  LET c == rq.ex.ctx IN
  IF res # "ok" THEN cs
  ELSE IF RunsInline(rq, inrun)
  THEN [cs EXCEPT ![c].ran = Append(@, Handler(rq))]
  ELSE [cs EXCEPT ![c].queue = Append(@, Handler(rq))]

\* ------------------------------------------------------------ the adapter
\* diagnostic_executor<InnerExecutor, Label, DiagnosticPolicy>: the state of
\* an adapter is its inner executor and its label; the policy is a type
\* parameter and holds no per-adapter state.
diagnostic_executor(inner, label, policy) ==
  [inner_ |-> inner, label_ |-> label, policy |-> policy]

\* make_diagnostic_executor(ex, label): the policy defaults to the null one.
make_diagnostic_executor(ex, label) ==
  diagnostic_executor(ex, label, "null_diagnostic_policy")

get_inner_executor(a) == a.inner_

\* The executor a plain lambda is bound to: none.
NoAdapter ==
  diagnostic_executor(InnerExecutor(0, "none", "none"),
                      [addr |-> 0, text |-> ""], "none")

\* History of an adapter that was constructed from an executor and a label.
Constructed ==
  [parent |-> 0, how |-> "constructed", prop |-> "none", from |-> NoAdapter]

\* A work item: the function object f and the executor it is bound to.
WorkItem(f) == [f |-> f, bound |-> NoAdapter]

\* asio::bind_executor(ex, w): the same function, bound to ex.
bind_executor(a, w) == [w EXCEPT !.bound = a]

\* Label equality is the Label type's own ==; for const char* it compares
\* the addresses.
label_eq(l1, l2) == l1.addr = l2.addr

\* operator== comparing the inner executors only.
operator_eq_nolabel(a, b) == inner_eq(a.inner_, b.inner_)

\* operator==
operator_eq(a, b) == inner_eq(a.inner_, b.inner_) /\ label_eq(a.label_, b.label_)

\* operator!=
operator_ne(a, b) == ~operator_eq(a, b)

\* What each submission operation hands to the inner executor.
execute(a, f) == Request("execute", FALSE, a.inner_, f, NoAlloc)

dispatch(a, f) == Request("dispatch", TRUE, a.inner_, f, NoAlloc)

dispatch_a(a, f, al) ==
  Request("dispatch", FALSE, a.inner_, bind_executor(a, f), al)

\* post(f) forwarding to asio::defer instead of asio::post.
post_as_defer(a, f) == Request("defer", TRUE, a.inner_, f, NoAlloc)

post(a, f) == Request("post", TRUE, a.inner_, f, NoAlloc)

\* post(f, a) handing the function object over without binding it.
post_a_unbound(a, f, al) == Request("post", FALSE, a.inner_, f, al)

post_a(a, f, al) == Request("post", FALSE, a.inner_, bind_executor(a, f), al)

defer(a, f) == Request("defer", TRUE, a.inner_, f, NoAlloc)

defer_a(a, f, al) == Request("defer", FALSE, a.inner_, bind_executor(a, f), al)

Forwarded(a, op, f, al) ==
  CASE op = "execute"    -> execute(a, f)
    [] op = "dispatch"   -> dispatch(a, f)
    [] op = "dispatch_a" -> dispatch_a(a, f, al)
    [] op = "post"       -> post(a, f)
    [] op = "post_a"     -> post_a(a, f, al)
    [] op = "defer"      -> defer(a, f)
    [] op = "defer_a"    -> defer_a(a, f, al)

\* The allocator an overload is called with.
AllocOf(op) ==
  IF op \in {"dispatch_a", "post_a", "defer_a"} THEN TestAllocator ELSE NoAlloc

\* The allocator-aware defer calling the inner executor before the hook.
Body_forward_first(op) ==
  IF op = "defer_a" THEN <<"forward", "on_submit">> ELSE <<"on_submit", "forward">>

\* The allocator-free dispatch returning after the hook, forwarding nothing.
Body_drop(op) ==
  IF op = "dispatch" THEN <<"on_submit">> ELSE <<"on_submit", "forward">>

\* The statements of a submission operation, in program order: the hook
\* call, then the call of the inner executor.  All seven operations have
\* this body.
Body(op) == <<"on_submit", "forward">>

\* std::string(label): the text at the label's address.
string_of(label) == label.text

\* query(p) answered by the context's default executor, not by inner_.
query_default(a, p) == inner_query(get_executor(a.inner_.ctx), p)

\* query(p)
query(a, p) == inner_query(a.inner_, p)

\* require(p)
require(a, p) ==
  diagnostic_executor(inner_require(a.inner_, p), a.label_, a.policy)

\* prefer(p) returning an adapter with the default policy.
prefer_default_policy(a, p) ==
  make_diagnostic_executor(inner_prefer(a.inner_, p), a.label_)

\* prefer(p)
prefer(a, p) ==
  diagnostic_executor(inner_prefer(a.inner_, p), a.label_, a.policy)

\* context()
context(a) == a.inner_.ctx

\* ------------------------------------------------------------------ state
VARIABLES
  adapters,  \* the adapter objects alive, in order of construction
  origin,    \* for each adapter: how it was made (history)
  pc,        \* for each thread: where it is inside a submission operation
  ctx,       \* the execution contexts the inner executors submit to
  direct,    \* the same contexts, were every operation made on the inner
             \* executor directly, without an adapter
  labels,    \* test_policy::labels()
  mutex,     \* test_policy::mutex(): the thread holding it
  calls,     \* the submissions made so far and what each did (history)
  trace,     \* the order of calls, hook calls, inner calls and returns (history)
  last       \* the last non-submission operation and its result

vars == <<adapters, origin, pc, ctx, direct, labels, mutex, calls, trace, last>>

Idle == [k |-> 0, sub |-> "", c |-> 0, snap |-> <<>>]

NoResult == [op |-> "none", args |-> <<>>, res |-> <<>>]


\* The adapter over the io_context executor with the recording policy, as the
\* unit test constructs it.
RecordingAdapter ==
  diagnostic_executor(get_executor(1), [addr |-> 1, text |-> "alpha"],
                      "test_policy")

NullAdapter(c, l) == make_diagnostic_executor(get_executor(c), l)

\* Nothing has been submitted yet.
Quiet ==
  /\ origin = [i \in DOMAIN adapters |-> Constructed]
  /\ pc = [t \in Threads |-> Idle]
  /\ ctx = [c \in Contexts |-> EmptyContext]
  /\ direct = [c \in Contexts |-> EmptyContext]
  /\ labels = <<>>
  /\ mutex = NoThread
  /\ calls = <<>>
  /\ trace = <<>>
  /\ last = NoResult

\* Two adapters have been constructed: the recording one, and one made by
\* make_diagnostic_executor over another context's executor or over a
\* never-blocking executor of the same context.
Init ==
  /\ \E e \in {get_executor(2), inner_require(get_executor(1), "blocking.never")} :
       adapters =
         << RecordingAdapter,
            make_diagnostic_executor(e, [addr |-> 3, text |-> "beta"]) >>
  /\ Quiet

\* The recording adapter and one over another context.
InitConc ==
  /\ adapters = << RecordingAdapter, NullAdapter(2, [addr |-> 3, text |-> "beta"]) >>
  /\ Quiet

\* One adapter has been constructed.
InitCaps ==
  /\ \E a \in {RecordingAdapter, NullAdapter(2, [addr |-> 3, text |-> "beta"])} :
       adapters = <<a>>
  /\ Quiet

\* Two adapters of one type have been constructed, the second over any
\* context and with any label.
InitEq ==
  /\ \E c \in Contexts, l \in Labels :
       adapters = << NullAdapter(1, [addr |-> 1, text |-> "alpha"]),
                     NullAdapter(c, l) >>
  /\ Quiet

\* ---------------------------------------------------- submission operations
\* The statement thread t is about to execute.
Cur(t) ==
  IF pc[t].k = 0 THEN "idle" ELSE Body(calls[pc[t].c].op)[pc[t].k]

\* The operation catching what the inner executor throws and returning
\* normally.
Advance_swallow(t, res, cl, tr) ==
  LET c == pc[t].c IN
  IF pc[t].k = Len(Body(cl[c].op))
  THEN /\ pc' = [pc EXCEPT ![t] = Idle]
       /\ calls' = [cl EXCEPT ![c].outcome = "ok"]
       /\ trace' = Append(tr, <<"ret", c>>)
  ELSE /\ pc' = [pc EXCEPT ![t] = [k |-> pc[t].k + 1, sub |-> "", c |-> c,
                                   snap |-> <<>>]]
       /\ calls' = cl
       /\ trace' = tr

\* Thread t has executed its current statement with outcome res: it moves
\* to the next statement, or returns to its caller after the last one or
\* when an exception left the operation.
Advance(t, res, cl, tr) ==
  LET c == pc[t].c IN
  IF res # "ok" \/ pc[t].k = Len(Body(cl[c].op))
  THEN /\ pc' = [pc EXCEPT ![t] = Idle]
       /\ calls' = [cl EXCEPT ![c].outcome = res]
       /\ trace' = Append(tr, <<"ret", c>>)
  ELSE /\ pc' = [pc EXCEPT ![t] = [k |-> pc[t].k + 1, sub |-> "", c |-> c,
                                   snap |-> <<>>]]
       /\ calls' = cl
       /\ trace' = tr

\* Thread t calls operation op of adapter i with a fresh work item; max bounds
\* the number of calls of a behaviour.
Call(t, i, op, max) ==
  /\ pc[t].k = 0
  /\ Len(calls) < max
  /\ LET c == Len(calls) + 1 IN
     /\ calls' = Append(calls,
          [t |-> t, adp |-> i, a |-> adapters[i], op |-> op,
           w |-> WorkItem(c), alloc |-> AllocOf(op),
           hooks |-> <<>>, reqs |-> <<>>, results |-> <<>>,
           outcome |-> "pending"])
     /\ trace' = Append(trace, <<"call", c>>)
     /\ pc' = [pc EXCEPT ![t] = [k |-> 1, sub |-> "", c |-> c, snap |-> <<>>]]
  /\ UNCHANGED <<adapters, origin, ctx, direct, labels, mutex, last>>

\* null_diagnostic_policy::on_submit(label_): does nothing.
NullHook(t) ==
  /\ Cur(t) = "on_submit"
  /\ calls[pc[t].c].a.policy = "null_diagnostic_policy"
  /\ LET c == pc[t].c IN
     Advance(t, "ok",
             [calls EXCEPT ![c].hooks = Append(@, calls[c].a.label_)],
             Append(trace, <<"hook", c>>))
  /\ UNCHANGED <<adapters, origin, ctx, direct, labels, mutex, last>>

\* on_submit entered without taking the mutex.
HookLock_unlocked(t) ==
  /\ Cur(t) = "on_submit"
  /\ calls[pc[t].c].a.policy = "test_policy"
  /\ pc[t].sub = ""
  /\ pc' = [pc EXCEPT ![t].sub = "locked"]
  /\ LET c == pc[t].c IN
     /\ calls' = [calls EXCEPT ![c].hooks = Append(@, calls[c].a.label_)]
     /\ trace' = Append(trace, <<"hook", c>>)
  /\ UNCHANGED <<adapters, origin, ctx, direct, labels, mutex, last>>

\* test_policy::on_submit(label_), entry: the lock_guard takes the mutex.
HookLock(t) ==
  /\ Cur(t) = "on_submit"
  /\ calls[pc[t].c].a.policy = "test_policy"
  /\ pc[t].sub = ""
  /\ mutex = NoThread
  /\ mutex' = t
  /\ pc' = [pc EXCEPT ![t].sub = "locked"]
  /\ LET c == pc[t].c IN
     /\ calls' = [calls EXCEPT ![c].hooks = Append(@, calls[c].a.label_)]
     /\ trace' = Append(trace, <<"hook", c>>)
  /\ UNCHANGED <<adapters, origin, ctx, direct, labels, last>>

\* labels().push_back(...), first half: the vector is read.
HookRead(t) ==
  /\ Cur(t) = "on_submit"
  /\ pc[t].sub = "locked"
  /\ pc' = [pc EXCEPT ![t].sub = "read", ![t].snap = labels]
  /\ UNCHANGED <<adapters, origin, ctx, direct, labels, mutex, calls, trace, last>>

\* labels().push_back(std::string(label)), second half: the vector is
\* written with the new element; then the lock_guard releases the mutex.
HookWrite(t) ==
  /\ Cur(t) = "on_submit"
  /\ pc[t].sub = "read"
  /\ labels' = Append(pc[t].snap, string_of(calls[pc[t].c].a.label_))
  /\ mutex' = IF mutex = t THEN NoThread ELSE mutex
  /\ Advance(t, "ok", calls, trace)
  /\ UNCHANGED <<adapters, origin, ctx, direct, last>>

\* What a client hands to inner executor e when it submits without an adapter.
Directly(e, op, w, al) ==
  CASE op = "execute"    -> Request("execute", FALSE, e, w, NoAlloc)
    [] op = "dispatch"   -> Request("dispatch", TRUE, e, w, NoAlloc)
    [] op = "dispatch_a" -> Request("dispatch", FALSE, e, w, al)
    [] op = "post"       -> Request("post", TRUE, e, w, NoAlloc)
    [] op = "post_a"     -> Request("post", FALSE, e, w, al)
    [] op = "defer"      -> Request("defer", TRUE, e, w, NoAlloc)
    [] op = "defer_a"    -> Request("defer", FALSE, e, w, al)

\* The call of the inner executor: it serves the request or throws.
Forward(t) ==
  /\ Cur(t) = "forward"
  /\ LET c  == pc[t].c
         cl == calls[c]
         rq == Forwarded(cl.a, cl.op, cl.w, cl.alloc)
         dq == Directly(cl.a.inner_, cl.op, cl.w, cl.alloc)
     IN \E res \in Outcomes(rq, RunningIn(t)) :
          /\ ctx' = inner_submit(ctx, rq, RunningIn(t), res)
          /\ direct' = inner_submit(direct, dq, RunningIn(t), res)
          /\ Advance(t, res,
                     [calls EXCEPT ![c].reqs = Append(@, rq),
                                   ![c].results = Append(@, res)],
                     Append(trace, <<"inner", c>>))
  /\ UNCHANGED <<adapters, origin, labels, mutex, last>>

\* The run loop of context c takes the next queued handler and runs it.
RunOne(c) ==
  /\ Len(ctx[c].queue) > 0
  /\ ctx' = [ctx EXCEPT ![c].queue = Tail(@),
                        ![c].ran = Append(@, Head(ctx[c].queue))]
  /\ direct' = IF Len(direct[c].queue) > 0
               THEN [direct EXCEPT ![c].queue = Tail(@),
                                   ![c].ran = Append(@, Head(direct[c].queue))]
               ELSE direct
  /\ UNCHANGED <<adapters, origin, pc, labels, mutex, calls, trace, last>>

\* ------------------------------------------------ non-submission operations
\* inner_.on_work_started() / inner_.on_work_finished() on the context.
inner_on_work_started(cs, e) == [cs EXCEPT ![e.ctx].work = @ + 1]

inner_on_work_finished(cs, e) == [cs EXCEPT ![e.ctx].work = @ - 1]

\* on_work_started() / on_work_finished() of the adapter
on_work_started(a, cs) == inner_on_work_started(cs, a.inner_)

on_work_finished(a, cs) == inner_on_work_finished(cs, a.inner_)

\* on_work_started() invoking the hook before it delegates.
OnWorkStarted_hooked(i) ==
  /\ ctx[adapters[i].inner_.ctx].work < MaxWork
  /\ ctx' = on_work_started(adapters[i], ctx)
  /\ direct' = inner_on_work_started(direct, adapters[i].inner_)
  /\ trace' = Append(trace, <<"hook", 0>>)
  /\ last' = [op |-> "on_work_started", args |-> <<i>>, res |-> <<>>]
  /\ UNCHANGED <<adapters, origin, pc, labels, mutex, calls>>

\* a.on_work_started(), and the same call made on the inner executor directly
OnWorkStarted(i) ==
  /\ ctx[adapters[i].inner_.ctx].work < MaxWork
  /\ ctx' = on_work_started(adapters[i], ctx)
  /\ direct' = inner_on_work_started(direct, adapters[i].inner_)
  /\ last' = [op |-> "on_work_started", args |-> <<i>>, res |-> <<>>]
  /\ UNCHANGED <<adapters, origin, pc, labels, mutex, calls, trace>>

\* a.on_work_finished(), called for work that was started before
OnWorkFinished(i) ==
  /\ ctx[adapters[i].inner_.ctx].work > 0
  /\ ctx' = on_work_finished(adapters[i], ctx)
  /\ direct' = inner_on_work_finished(direct, adapters[i].inner_)
  /\ last' = [op |-> "on_work_finished", args |-> <<i>>, res |-> <<>>]
  /\ UNCHANGED <<adapters, origin, pc, labels, mutex, calls, trace>>

\* a.context()
Context(i) ==
  /\ last' = [op |-> "context", args |-> <<i>>,
              res |-> <<"context", context(adapters[i])>>]
  /\ UNCHANGED <<adapters, origin, pc, ctx, direct, labels, mutex, calls, trace>>

\* require(p): a new adapter object is returned.
Require(i, p) ==
  /\ Len(adapters) < MaxAdapters
  /\ adapters' = Append(adapters, require(adapters[i], p))
  /\ origin' = Append(origin, [parent |-> i, how |-> "require", prop |-> p,
                               from |-> adapters[i]])
  /\ UNCHANGED <<pc, ctx, direct, labels, mutex, calls, trace, last>>

\* prefer(p): a new adapter object is returned.
Prefer(i, p) ==
  /\ Len(adapters) < MaxAdapters
  /\ adapters' = Append(adapters, prefer(adapters[i], p))
  /\ origin' = Append(origin, [parent |-> i, how |-> "prefer", prop |-> p,
                              from |-> adapters[i]])
  /\ UNCHANGED <<pc, ctx, direct, labels, mutex, calls, trace, last>>

\* query(p)
Query(i, p) ==
  /\ last' = [op |-> "query", args |-> <<i, p>>, res |-> query(adapters[i], p)]
  /\ UNCHANGED <<adapters, origin, pc, ctx, direct, labels, mutex, calls, trace>>

\* a == b and a != b, for two adapters of the same type
Compare(i, j) ==
  /\ adapters[i].policy = adapters[j].policy
  /\ last' = [op |-> "compare", args |-> <<i, j>>,
              res |-> <<operator_eq(adapters[i], adapters[j]),
                        operator_ne(adapters[i], adapters[j])>>]
  /\ UNCHANGED <<adapters, origin, pc, ctx, direct, labels, mutex, calls, trace>>

\* ------------------------------------------------------------ specifications
Adapters == DOMAIN adapters

Next ==
  \/ \E i \in Adapters, op \in SubmitOps : Call("t2", i, op, MaxCalls)
  \/ NullHook("t2")
  \/ HookLock("t2")
  \/ HookRead("t2")
  \/ HookWrite("t2")
  \/ Forward("t2")
  \/ \E c \in Contexts : RunOne(c)

\* One thread, itself inside the run loop of context 1, submitting through
\* the adapters, and the run loops of the contexts.
Spec == Init /\ [][Next]_vars

NextConc ==
  \/ \E t \in Threads, op \in SubmitOps : Call(t, 1, op, MaxConcCalls)
  \/ \E t \in Threads : HookLock(t)
  \/ \E t \in Threads : HookRead(t)
  \/ \E t \in Threads : HookWrite(t)
  \/ \E t \in Threads : Forward(t)

\* Two threads submitting concurrently through one shared adapter whose
\* policy records the labels.
SpecConc == InitConc /\ [][NextConc]_vars

NextFrame ==
  \/ \E i \in Adapters, op \in SubmitOps : Call("t2", i, op, MaxFrameCalls)
  \/ NullHook("t2")
  \/ HookLock("t2")
  \/ HookRead("t2")
  \/ HookWrite("t2")
  \/ Forward("t2")
  \/ \E i \in Adapters : OnWorkStarted(i)
  \/ \E i \in Adapters : OnWorkFinished(i)
  \/ \E i \in Adapters : Context(i)

\* One thread using every operation of the legacy executor interface.
SpecFrame == Init /\ [][NextFrame]_vars

NextCaps ==
  \/ \E i \in Adapters, p \in Properties : Require(i, p)
  \/ \E i \in Adapters, p \in Properties : Prefer(i, p)
  \/ \E i \in Adapters, p \in QueryProps : Query(i, p)

\* Chains of requirement changes, and queries.
SpecCaps == InitCaps /\ [][NextCaps]_vars

NextEq ==
  \/ \E i \in Adapters, p \in Properties : Require(i, p)
  \/ \E i \in Adapters, j \in Adapters : Compare(i, j)

\* Comparisons of constructed and transformed adapters.
SpecEq == InitEq /\ [][NextEq]_vars

\* ------------------------------------------------------------ rescheduling
\* asio::get_associated_executor(handler): the executor the handler is bound
\* to.
associated_executor(h) == h.w.bound

\* The executor asio::post(handler) submits through when the handler is bound
\* to adapter a: a.require(blocking.never).prefer(relationship.fork).
resubmitting_executor(a) ==
  prefer(require(a, "blocking.never"), "relationship.fork")

\* The run loop of context x takes the next queued handler, and the handler
\* is rescheduled with asio::post(handler), that is, through its associated
\* executor.  A handler bound to an adapter is resubmitted by thread t with
\* execute on that adapter; an unbound handler goes to the default executor,
\* which runs it.
Reschedule(t, x) ==
  /\ pc[t].k = 0
  /\ Len(calls) < MaxReschedCalls
  /\ Len(ctx[x].queue) > 0
  /\ LET h == Head(ctx[x].queue)
         c == Len(calls) + 1
     IN IF associated_executor(h) # NoAdapter
        THEN /\ ctx' = [ctx EXCEPT ![x].queue = Tail(@)]
             /\ calls' = Append(calls,
                  [t |-> t, adp |-> calls[h.w.f].adp,
                   a |-> resubmitting_executor(associated_executor(h)),
                   op |-> "execute", w |-> h.w, alloc |-> NoAlloc,
                   hooks |-> <<>>, reqs |-> <<>>, results |-> <<>>,
                   outcome |-> "pending"])
             /\ trace' = trace \o << <<"resched", h.w.f>>, <<"call", c>> >>
             /\ pc' = [pc EXCEPT ![t] = [k |-> 1, sub |-> "", c |-> c,
                                         snap |-> <<>>]]
        ELSE /\ ctx' = [ctx EXCEPT ![x].queue = Tail(@),
                                   ![x].ran = Append(@, h)]
             /\ trace' = Append(trace, <<"resched", h.w.f>>)
             /\ UNCHANGED <<calls, pc>>
  /\ UNCHANGED <<adapters, origin, direct, labels, mutex, last>>

NextResched ==
  \/ \E i \in Adapters, op \in SubmitOps : Call("t2", i, op, MaxReschedCalls)
  \/ NullHook("t2")
  \/ HookLock("t2")
  \/ HookRead("t2")
  \/ HookWrite("t2")
  \/ Forward("t2")
  \/ \E x \in Contexts : Reschedule("t2", x)

\* One thread submitting through one adapter, and handlers that are
\* rescheduled through their associated executor when their turn comes.
SpecResched == InitCaps /\ [][NextResched]_vars

\* ------------------------------------------------ static capability traits
\* Work-item types a trait is asked about.
FunctionTypes == {"invocable_archetype", "lambda"}

\* Inner executor types: the work-item types the type has an execute member
\* for, and whether the type has a (non-throwing) operator==.
InnerTypes ==
  { [name |-> "io_context::executor_type", executes |-> FunctionTypes,
     comparable |-> TRUE],
    [name |-> "strand<io_context::executor_type>", executes |-> FunctionTypes,
     comparable |-> TRUE],
    [name |-> "archetype_only_executor", executes |-> {"invocable_archetype"},
     comparable |-> TRUE],
    [name |-> "int", executes |-> {}, comparable |-> TRUE],
    [name |-> "incomparable_executor", executes |-> FunctionTypes,
     comparable |-> FALSE],
    [name |-> "opaque", executes |-> {}, comparable |-> FALSE] }

LabelTypes == {"const char*", "std::string"}

\* The adapter types diagnostic_executor<InnerExecutor, Label, DiagnosticPolicy>.
AdapterTypes ==
  [inner : InnerTypes, label : LabelTypes, policy : Policies]

\* The two ways the header is compiled: with ASIO_HAS_DEDUCED_..._TRAIT
\* defined, the partial specialisations of the traits are compiled out and
\* the trait is deduced from the well-formedness of the expression; without,
\* the partial specialisations decide.
Builds == {"deduced", "specialised"}

\* Whether a.execute(f) is well-formed for the adapter type: execute is
\* declared for every Function type, without a constraint, and returns void,
\* so the call expression is well-formed whatever the inner executor type.
execute_well_formed(T, F) == TRUE

\* Whether a == b is well-formed for the adapter type: the friend operator==
\* is declared for every adapter type and is noexcept.
equality_well_formed(T) == TRUE

\* traits::execute_member<diagnostic_executor<...>, Function>::is_valid
execute_member(build, T, F) ==
  IF build = "deduced" THEN execute_well_formed(T, F)
  ELSE F \in T.inner.executes

\* traits::equality_comparable<diagnostic_executor<...>>::is_valid
equality_comparable(build, T) ==
  IF build = "deduced" THEN equality_well_formed(T)
  ELSE T.inner.comparable

\* A use of traits::execute_member on an adapter type.
ExecuteMemberTrait(build, T, F) ==
  /\ last' = [op |-> "execute_member", args |-> <<build, T, F>>,
              res |-> <<execute_member(build, T, F)>>]
  /\ UNCHANGED <<adapters, origin, pc, ctx, direct, labels, mutex, calls, trace>>

\* A use of traits::equality_comparable on an adapter type.
EqualityComparableTrait(build, T) ==
  /\ last' = [op |-> "equality_comparable", args |-> <<build, T>>,
              res |-> <<equality_comparable(build, T)>>]
  /\ UNCHANGED <<adapters, origin, pc, ctx, direct, labels, mutex, calls, trace>>

NextTraits ==
  \/ \E b \in Builds, T \in AdapterTypes, F \in FunctionTypes :
       ExecuteMemberTrait(b, T, F)
  \/ \E b \in Builds, T \in AdapterTypes : EqualityComparableTrait(b, T)

\* Generic code asking the traits about adapter types.
SpecTraits == InitConc /\ [][NextTraits]_vars

\* ------------------------------------------------------------ history
\* Positions of the events of kind k of call c in the trace.
Pos(k, c) == {n \in DOMAIN trace : trace[n] = <<k, c>>}

\* The position of the only event of kind k of call c.
At(k, c) == CHOOSE n \in Pos(k, c) : TRUE

Once(k, c) == Cardinality(Pos(k, c)) = 1

Returned(c) == calls[c].outcome # "pending"

\* The hook call of call c is over.
HookDone(c) ==
  \/ Returned(c)
  \/ /\ Len(calls[c].hooks) > 0
     /\ pc[calls[c].t].c = c
     /\ Cur(calls[c].t) # "on_submit"

\* The handlers of call c that the contexts hold, queued or run.
Held(cs, c) ==
  UNION { {<<x, "queue", n>> : n \in {m \in DOMAIN cs[x].queue : cs[x].queue[m].w.f = c}}
          \cup {<<x, "ran", n>> : n \in {m \in DOMAIN cs[x].ran : cs[x].ran[m].w.f = c}}
          : x \in Contexts }

\* The inner operation an adapter operation corresponds to.
Matching(op) ==
  CASE op = "execute"                  -> "execute"
    [] op \in {"dispatch", "dispatch_a"} -> "dispatch"
    [] op \in {"post", "post_a"}         -> "post"
    [] op \in {"defer", "defer_a"}       -> "defer"

\* ------------------------------------------------------------------ claims
\* C1: every submission through execute, dispatch, post or defer (with or
\* without allocator) invokes the policy hook exactly once, with the label
\* stored in the adapter, and strictly before it invokes the inner
\* executor's operation.
C1_HookOnceBeforeInner ==
  \A c \in DOMAIN calls :
    /\ Len(calls[c].hooks) <= 1
    /\ Len(calls[c].hooks) = Cardinality(Pos("hook", c))
    /\ (Returned(c) \/ Pos("inner", c) # {}) =>
         /\ Once("hook", c)
         /\ calls[c].hooks = << adapters[calls[c].adp].label_ >>
         /\ \A n \in Pos("inner", c) : At("hook", c) < n
         /\ At("call", c) < At("hook", c)

\* C1 witness: an allocator-aware defer and an allocator-free post have both
\* returned after reaching the inner executor.
C1_Witness ==
  /\ \E c \in DOMAIN calls :
       calls[c].op = "defer_a" /\ calls[c].outcome = "ok" /\ Once("inner", c)
  /\ \E c \in DOMAIN calls :
       calls[c].op = "post" /\ calls[c].outcome = "ok" /\ Once("inner", c)

\* The handler without its executor binding.
Unbound(h) == [h EXCEPT !.w.bound = NoAdapter]

UnboundSeq(sq) == [n \in DOMAIN sq |-> Unbound(sq[n])]

\* The contexts with every handler unbound.
UnboundAll(cs) ==
  [c \in Contexts |-> [cs[c] EXCEPT !.queue = UnboundSeq(@), !.ran = UnboundSeq(@)]]

OnlyNullPolicy ==
  \A c \in DOMAIN calls : calls[c].a.policy = "null_diagnostic_policy"

\* C2 as stated: submitting through an adapter with the null policy leaves
\* the inner executor in the same state as submitting directly, every item
\* handed over once, unaltered, through the matching operation.
C2_Original ==
  OnlyNullPolicy =>
    /\ ctx = direct
    /\ \A c \in DOMAIN calls :
         Returned(c) =>
           /\ Len(calls[c].reqs) = 1
           /\ calls[c].reqs[1].w = calls[c].w
           /\ calls[c].reqs[1].fn = Matching(calls[c].op)

\* C2 amended: with the null policy the inner executor ends in the same
\* state as under direct submission up to the executor binding of the
\* handlers: every item is handed over once through the matching operation
\* on the adapter's inner executor, runs when the inner executor runs it, and
\* nothing is recorded; execute and the allocator-free overloads hand the
\* item over unaltered, the allocator-aware overloads hand over the same
\* function bound to the submitting adapter.
C2_PassThrough ==
  OnlyNullPolicy =>
    /\ UnboundAll(ctx) = direct
    /\ labels = <<>>
    /\ \A c \in DOMAIN calls :
         Returned(c) =>
           /\ Len(calls[c].reqs) = 1
           /\ calls[c].reqs[1].fn = Matching(calls[c].op)
           /\ calls[c].reqs[1].ex = adapters[calls[c].adp].inner_
           /\ calls[c].reqs[1].alloc = calls[c].alloc
           /\ calls[c].reqs[1].w.f = calls[c].w.f
           /\ calls[c].reqs[1].w =
                IF calls[c].alloc = NoAlloc THEN calls[c].w
                ELSE bind_executor(adapters[calls[c].adp], calls[c].w)
           /\ Cardinality(Held(ctx, c)) = IF calls[c].outcome = "ok" THEN 1 ELSE 0

\* C2 witness: under the null policy an allocator-aware post and an
\* allocator-free dispatch were handed over, and the run loop has run the
\* posted handler.
C2_Witness ==
  /\ OnlyNullPolicy
  /\ \E c \in DOMAIN calls :
       /\ calls[c].op = "post_a" /\ calls[c].outcome = "ok"
       /\ \E x \in Contexts : \E n \in DOMAIN ctx[x].ran : ctx[x].ran[n].w.f = c
  /\ \E c \in DOMAIN calls : calls[c].op = "dispatch" /\ calls[c].outcome = "ok"

\* C3: the inner executors receive the work items in the order of the
\* adapter calls: each call reaches the inner executor once, inside the call
\* (after its entry, before its return), so an adapter never holds an item
\* back; a call that returned before another began reached the inner
\* executor first, and a context's queue holds the items in call order.
C3_OrderPreserved ==
  /\ \A c \in DOMAIN calls :
       Returned(c) =>
         /\ Once("inner", c)
         /\ At("call", c) < At("inner", c)
         /\ At("inner", c) < At("ret", c)
  /\ \A c1 \in DOMAIN calls, c2 \in DOMAIN calls :
       (Returned(c1) /\ At("ret", c1) < At("call", c2)) =>
         \A n \in Pos("inner", c2) : At("inner", c1) < n
  /\ \A x \in Contexts :
       \A m \in DOMAIN ctx[x].queue, n \in DOMAIN ctx[x].queue :
         m < n => ctx[x].queue[m].w.f < ctx[x].queue[n].w.f

\* C3 witness: two calls have returned, the earlier one's item is queued in
\* front of the later one's.
C3_Witness ==
  \E x \in Contexts :
    /\ Len(ctx[x].queue) = 2
    /\ Returned(ctx[x].queue[1].w.f) /\ Returned(ctx[x].queue[2].w.f)
    /\ calls[ctx[x].queue[1].w.f].op # calls[ctx[x].queue[2].w.f].op

\* C6: when the inner executor's operation throws, the adapter's operation
\* ends with that same exception: the inner operation was tried once, the
\* outcome of the call is the outcome of the inner operation, and besides
\* the one hook call nothing has changed: no handler of the call is held by
\* any context.
C6_FailurePropagates ==
  \A c \in DOMAIN calls :
    Returned(c) =>
      /\ Len(calls[c].results) = 1
      /\ calls[c].outcome = calls[c].results[1]
      /\ calls[c].outcome # "ok" =>
           /\ Held(ctx, c) = {}
           /\ Len(calls[c].hooks) = 1
           /\ adapters[calls[c].adp] = calls[c].a

\* C6 witness: a call has returned with the inner executor's bad_alloc, and
\* a later call succeeded.
C6_Witness ==
  \E c1 \in DOMAIN calls, c2 \in DOMAIN calls :
    /\ c1 < c2
    /\ calls[c1].outcome = "bad_alloc" /\ calls[c1].results = <<"bad_alloc">>
    /\ calls[c2].outcome = "ok"

HookEvents == {n \in DOMAIN trace : trace[n][1] = "hook"}

AllIdle == \A t \in Threads : pc[t].k = 0

\* C7: context(), on_work_started() and on_work_finished() delegate to the
\* same operation of the inner executor and never invoke the hook: the
\* context's work count is what the same calls made directly on the inner
\* executor give, context() returns the inner executor's context, every hook
\* invocation belongs to a submission call, and once all calls have returned
\* there are as many hook invocations as submission calls.
C7_NoHookOutsideSubmission ==
  /\ \A n \in HookEvents : trace[n][2] \in DOMAIN calls
  /\ Cardinality(HookEvents) = Cardinality({c \in DOMAIN calls : Len(calls[c].hooks) > 0})
  /\ AllIdle => Cardinality(HookEvents) = Len(calls)
  /\ Len(labels) <= Len(calls)
  /\ \A c \in Contexts : ctx[c].work = direct[c].work
  /\ last.op = "context" =>
       last.res = <<"context", adapters[last.args[1]].inner_.ctx>>

\* C7 witness: after a submission that returned, work was started and then
\* finished through an adapter.
C7_Witness ==
  /\ last.op = "on_work_finished"
  /\ \E c \in DOMAIN calls : Returned(c)
  /\ \E c \in Contexts : ctx[c].work = 1

\* C9: with a hook that locks its own state and an inner executor that
\* accepts concurrent submissions, concurrent submissions through one shared
\* adapter lose and duplicate nothing: the policy has recorded one entry,
\* equal to the stored label, for every call whose hook call is over, the
\* contexts hold exactly one handler for every call the inner executor
\* accepted, and each call's hook call precedes its inner submission.
C9_ConcurrentSubmission ==
  /\ Len(labels) = Cardinality({c \in DOMAIN calls : HookDone(c)})
  /\ \A n \in DOMAIN labels : labels[n] = string_of(adapters[1].label_)
  /\ \A c \in DOMAIN calls :
       /\ Cardinality(Held(ctx, c)) =
            IF calls[c].results = <<"ok">> THEN 1 ELSE 0
       /\ Len(calls[c].results) <= 1
       /\ \A n \in Pos("inner", c) : Once("hook", c) /\ At("hook", c) < n
  /\ AllIdle =>
       /\ Len(labels) = Len(calls)
       /\ \A c \in DOMAIN calls : Once("hook", c) /\ Once("inner", c)

\* C9 witness: two calls of different threads overlapped in time (the second
\* was entered before the hook call of the first was over), both have
\* returned and both handlers are held.
C9_Witness ==
  \E c1 \in DOMAIN calls, c2 \in DOMAIN calls :
    /\ calls[c1].t # calls[c2].t
    /\ calls[c1].outcome = "ok" /\ calls[c2].outcome = "ok"
    /\ At("hook", c1) < At("call", c2)
    /\ At("call", c2) < At("inner", c1)
    /\ At("hook", c2) < At("inner", c1)
    /\ Len(labels) = 2

\* C4: a == b exactly when the inner executors are equal and the labels are
\* equal (by the label type's ==, the address for const char*), and a != b
\* is the negation of a == b.
C4_Equality ==
  last.op = "compare" =>
    LET a == adapters[last.args[1]]
        b == adapters[last.args[2]]
    IN /\ last.res[1] = (a.inner_ = b.inner_ /\ a.label_.addr = b.label_.addr)
       /\ last.res[2] = ~last.res[1]

\* C4 witness: two different adapter objects were compared and are equal.
C4_Witness ==
  /\ last.op = "compare"
  /\ last.args[1] # last.args[2]
  /\ last.res = <<TRUE, FALSE>>

RECURSIVE Root(_)
\* The constructed adapter a chain of require/prefer calls started from.
Root(j) == IF origin[j].parent = 0 THEN j ELSE Root(origin[j].parent)

\* C5: require(p) and prefer(p) return a new adapter with the label and the
\* policy of the original and with the original's inner executor
\* transformed by require (prefer) with p; the original is as it was; along
\* a chain of such calls the label and the policy stay those of the first
\* adapter.
C5_RequirePreservesIdentity ==
  \A j \in DOMAIN adapters :
    /\ origin[j].parent # 0 =>
         LET o == origin[j] IN
         /\ adapters[o.parent] = o.from
         /\ adapters[j].label_ = o.from.label_
         /\ adapters[j].policy = o.from.policy
         /\ o.how = "require" =>
              adapters[j].inner_ = inner_require(o.from.inner_, o.prop)
         /\ o.how = "prefer" =>
              adapters[j].inner_ = inner_prefer(o.from.inner_, o.prop)
    /\ adapters[j].label_ = adapters[Root(j)].label_
    /\ adapters[j].policy = adapters[Root(j)].policy
    /\ adapters[j].inner_.ctx = adapters[Root(j)].inner_.ctx

\* C5 witness: a chain of a require and a prefer from the recording adapter
\* ended in an adapter whose inner executor differs from the first one's in
\* both properties.
C5_Witness ==
  \E j \in DOMAIN adapters :
    /\ origin[j].parent # 0
    /\ origin[origin[j].parent].parent # 0
    /\ origin[j].how # origin[origin[j].parent].how
    /\ adapters[Root(j)].policy = "test_policy"
    /\ adapters[j].inner_.blocking # adapters[Root(j)].inner_.blocking
    /\ adapters[j].inner_.relationship # adapters[Root(j)].inner_.relationship

\* The value a property stands for.
PropValue(p) ==
  CASE p = "blocking.possibly"         -> <<"blocking", "possibly">>
    [] p = "blocking.never"            -> <<"blocking", "never">>
    [] p = "relationship.fork"         -> <<"relationship", "fork">>
    [] p = "relationship.continuation" -> <<"relationship", "continuation">>

\* C8: query(p) returns what the inner executor reports for p and invokes
\* no hook; an adapter returned by require(q) or prefer(q) reports the value
\* of q when the property of q is queried.
C8_QueryForwards ==
  last.op = "query" =>
    LET i == last.args[1]
        p == last.args[2]
    IN /\ last.res = inner_query(adapters[i].inner_, p)
       /\ last.res[1] = p
       /\ p = "context" => last.res[2] = adapters[Root(i)].inner_.ctx
       /\ (origin[i].parent # 0 /\ PropValue(origin[i].prop)[1] = p) =>
            last.res = PropValue(origin[i].prop)
       /\ trace = <<>> /\ labels = <<>>

\* C8 witness: the adapter returned by require(blocking.never) was asked for
\* its blocking property.
C8_Witness ==
  /\ last.op = "query"
  /\ origin[last.args[1]].how = "require"
  /\ origin[last.args[1]].prop = "blocking.never"
  /\ origin[last.args[1]].from.inner_.blocking = "possibly"
  /\ last.res = <<"blocking", "never">>

\* C10: the adapter type is reported to have an execute member for a
\* work-item type exactly when the inner executor type has one, and to be
\* equality-comparable exactly when the inner executor type is, whatever the
\* label type and the policy type.
C10_TraitsMirrorInner ==
  /\ last.op = "execute_member" =>
       last.res[1] = (last.args[3] \in last.args[2].inner.executes)
  /\ last.op = "equality_comparable" =>
       last.res[1] = last.args[2].inner.comparable

\* A call that resubmits a rescheduled handler: its function object is
\* that of an earlier call.
Resubmission(c) == calls[c].w.f # c

\* The resubmissions of the function object first submitted by call f.
ResubmissionsOf(f) == {c \in DOMAIN calls : Resubmission(c) /\ calls[c].w.f = f}

\* C11: the allocator-aware dispatch, post and defer hand the inner executor
\* the work item bound to an adapter equal to the submitting one (same inner
\* executor, same label, same policy), and every time such an item is
\* rescheduled through its associated executor the resubmission goes through
\* an adapter with that label and policy, which invokes the hook once more,
\* with the same label, before it reaches the same context; execute and the
\* allocator-free overloads hand the item over unbound, and rescheduling it
\* invokes no hook.
C11_RewrapSurvivesRescheduling ==
  \A c \in DOMAIN calls :
    LET cl == calls[c]
        first == calls[cl.w.f]
        submitter == adapters[first.adp]
    IN /\ (~Resubmission(c) /\ Len(cl.reqs) > 0) =>
            /\ cl.reqs[1].w.f = c
            /\ cl.alloc # NoAlloc =>
                 /\ cl.reqs[1].w.bound = submitter
                 /\ operator_eq(cl.reqs[1].w.bound, submitter)
                 /\ cl.reqs[1].w.bound.policy = submitter.policy
            /\ cl.alloc = NoAlloc => cl.reqs[1].w = cl.w
       /\ ~Resubmission(c) =>
            Cardinality(ResubmissionsOf(c)) =
              IF cl.alloc # NoAlloc THEN Cardinality(Pos("resched", c)) ELSE 0
       /\ Resubmission(c) =>
            /\ first.alloc # NoAlloc
            /\ first.results = <<"ok">>
            /\ cl.a.label_ = submitter.label_
            /\ cl.a.policy = submitter.policy
            /\ cl.a.inner_.ctx = submitter.inner_.ctx
            /\ (Returned(c) \/ Pos("inner", c) # {}) =>
                 /\ Once("hook", c)
                 /\ cl.hooks = << submitter.label_ >>
                 /\ \A n \in Pos("inner", c) : At("hook", c) < n
            /\ Len(cl.reqs) > 0 =>
                 /\ cl.reqs[1].ex.ctx = submitter.inner_.ctx
                 /\ cl.reqs[1].w.bound = submitter

\* C11 witness: a work item submitted with the allocator-aware post through
\* the recording adapter was rescheduled and its resubmission has returned
\* with the hook invoked again, and an item submitted with the allocator-free
\* post was rescheduled without a resubmission: the policy has recorded the
\* label three times, for the two submissions and the one resubmission.
C11_Witness ==
  /\ \E c \in DOMAIN calls :
       /\ Resubmission(c) /\ calls[c].outcome = "ok"
       /\ calls[calls[c].w.f].op = "post_a"
       /\ calls[c].a.policy = "test_policy"
       /\ calls[c].hooks = << adapters[1].label_ >>
  /\ \E c \in DOMAIN calls :
       /\ calls[c].op = "post" /\ Pos("resched", c) # {}
       /\ ResubmissionsOf(c) = {}
  /\ labels = <<"alpha", "alpha", "alpha">>

====
